---- MODULE Spec2Model ----
(***************************************************************************)
(* werkzeug.sansio.http: is_resource_modified and parse_cookie.            *)
(*                                                                         *)
(* A Python str is a sequence of code points, a Python bytes a sequence of *)
(* integers 0..255.  An Optional value is <<>> (None) or <<x>>.            *)
(***************************************************************************)
EXTENDS Integers, Sequences, FiniteSets, TLC

VARIABLES
    pc,      \* "call" before the function has run, "done" after it returned,
             \* "raised" after it raised
    fn,      \* which function the call is of
    args,    \* the arguments of the call
    result   \* the value returned (Optional: <<>> until there is one)

vars == <<pc, fn, args, result>>

(***************************************************************************)
(* Bounds of the model.                                                    *)
(***************************************************************************)
\* instants are whole seconds 1..MaxTime after the epoch
MaxTime == 2
\* Cookie headers of at most MaxCookieLen characters
MaxCookieLen == 5
\* quoted cookie values of at most MaxValueLen characters
MaxValueLen == 6

(***************************************************************************)
(* Strings.                                                                *)
(***************************************************************************)
None == <<>>
Some(x) == <<x>>

Printable ==
    <<" ", "!", "\"", "#", "$", "%", "&", "'", "(", ")", "*", "+", ",", "-",
      ".", "/", "0", "1", "2", "3", "4", "5", "6", "7", "8", "9", ":", ";",
      "<", "=", ">", "?", "@", "A", "B", "C", "D", "E", "F", "G", "H", "I",
      "J", "K", "L", "M", "N", "O", "P", "Q", "R", "S", "T", "U", "V", "W",
      "X", "Y", "Z", "[", "\\", "]", "^", "_", "grave", "a", "b", "c", "d", "e",
      "f", "g", "h", "i", "j", "k", "l", "m", "n", "o", "p", "q", "r", "s",
      "t", "u", "v", "w", "x", "y", "z", "{", "|", "}", "~">>

\* the code point of a printable ASCII character (the table is in code
\* point order from 32; the grave accent is spelled out)
Ord(c) == 31 + CHOOSE i \in 1..Len(Printable) : Printable[i] = c

\* the str spelled by a tuple of characters
Str(cs) == [i \in 1..Len(cs) |-> Ord(cs[i])]

\* s[i:j] on 1-based, inclusive positions; empty when j < i
Slice(s, i, j) == IF j < i THEN <<>> ELSE SubSeq(s, i, j)

\* \s of the re module on ASCII text
IsSpace(c) == c \in {9, 10, 11, 12, 13, 32}

\* the first position >= p of s that holds no whitespace (Len(s)+1 if none)
RECURSIVE SkipSpace(_, _)
SkipSpace(s, p) ==
    IF p <= Len(s) /\ IsSpace(s[p]) THEN SkipSpace(s, p + 1) ELSE p

\* the last position <= p of s that holds no whitespace (0 if none)
RECURSIVE SkipSpaceBack(_, _)
SkipSpaceBack(s, p) ==
    IF p >= 1 /\ IsSpace(s[p]) THEN SkipSpaceBack(s, p - 1) ELSE p

\* str.strip()
Strip(s) ==
    LET a == SkipSpace(s, 1)
        b == SkipSpaceBack(s, Len(s))
    IN  Slice(s, a, b)

\* the code points the patterns name
DQUOTE == Ord("\"")
COMMA == Ord(",")
SLASH == Ord("/")
UPPER_W == Ord("W")
LOWER_W == Ord("w")
STAR == Ord("*")
EQUALS == Ord("=")
SEMICOLON == Ord(";")
BACKSLASH == Ord("\\")
ZERO == Ord("0")
NEWLINE == 10
REPLACEMENT == 65533

(***************************************************************************)
(* Dates.  A datetime is [sec, micro, tz]; tz is "naive" or "utc".         *)
(***************************************************************************)
Datetime(sec, micro, tz) == [sec |-> sec, micro |-> micro, tz |-> tz]

\* the IMF-fixdate text of the instant t seconds after the epoch, 0 <= t <= 9
HttpDate(t) ==
    Str(<<"T", "h", "u", ",", " ", "0", "1", " ", "J", "a", "n", " ",
          "1", "9", "7", "0", " ", "0", "0", ":", "0", "0", ":", "0">>)
    \o <<Ord("0") + t>> \o Str(<<" ", "G", "M", "T">>)

HttpDates == [t \in 0..9 |-> HttpDate(t)]

\* parse_date: Optional[str] -> Optional[datetime]; an aware UTC datetime,
\* None when the value is absent or is no date
parse_date(value) ==
    IF value = None \/ Len(value[1]) # Len(HttpDates[0]) THEN None
    ELSE IF \E t \in 0..9 : value[1] = HttpDates[t]
         THEN Some(Datetime(CHOOSE t \in 0..9 : value[1] = HttpDates[t], 0, "utc"))
         ELSE None

\* _dt_as_utc: a naive datetime is taken as UTC
dt_as_utc(dt) == IF dt.tz = "naive" THEN [dt EXCEPT !.tz = "utc"] ELSE dt

\* datetime.__le__ on two aware datetimes
DtLE(a, b) == a.sec < b.sec \/ (a.sec = b.sec /\ a.micro <= b.micro)

(***************************************************************************)
(* Entity tags.                                                            *)
(***************************************************************************)
\* (?:\s*,\s*|$) at position q of value: <<>> when it does not match there,
\* <<end>> (the position after the match) when it does
EtagSepAt(value, q) ==
    LET r == SkipSpace(value, q)
    IN  IF r <= Len(value) /\ value[r] = COMMA
        THEN Some(SkipSpace(value, r + 1))
        ELSE IF q = Len(value) + 1 THEN Some(q) ELSE None

\* _etag_re.match(value, pos):
\*    ([Ww]/)?(?:"(.*?)"|(.*?))(?:\s*,\s*|$)
\* [is_weak, quoted, raw, end]; quoted and raw are Optional (a group that
\* took no part in the match is None)
etag_re_match(value, pos) ==
    LET n == Len(value)
        weak == /\ pos + 1 <= n
                /\ value[pos] \in {UPPER_W, LOWER_W}
                /\ value[pos + 1] = SLASH
        p1 == IF weak THEN pos + 2 ELSE pos
        \* closing quotes after which the separator matches
        closes == IF p1 <= n /\ value[p1] = DQUOTE
                  THEN {k \in (p1 + 1)..n :
                          value[k] = DQUOTE /\ EtagSepAt(value, k + 1) # None}
                  ELSE {}
        \* ends of a raw run after which the separator matches
        stops == {k \in p1..(n + 1) : EtagSepAt(value, k) # None}
    IN  IF closes # {}
        THEN LET k == CHOOSE k \in closes : \A j \in closes : k <= j
             IN  [is_weak |-> weak, quoted |-> Some(Slice(value, p1 + 1, k - 1)),
                  raw |-> None, end |-> EtagSepAt(value, k + 1)[1]]
        ELSE LET k == CHOOSE k \in stops : \A j \in stops : k <= j
             IN  [is_weak |-> weak, quoted |-> None,
                  raw |-> Some(Slice(value, p1, k - 1)),
                  end |-> EtagSepAt(value, k)[1]]

\* ETags(strong_etags, weak_etags, star_tag)
ETags(strong, weak, star) ==
    [strong |-> IF ~star THEN strong ELSE {}, weak |-> weak, star_tag |-> star]

\* the loop of parse_etags from position pos on, with the tags found so far
RECURSIVE parse_etags_from(_, _, _, _)
parse_etags_from(value, pos, strong, weak) ==
    IF pos > Len(value) THEN ETags(strong, weak, FALSE)
    ELSE LET m == etag_re_match(value, pos)
             tag == IF m.quoted # None /\ m.quoted[1] # <<>>
                    THEN m.quoted ELSE m.raw
         IN  IF m.raw = Some(<<STAR>>) THEN ETags({}, {}, TRUE)
             ELSE IF m.is_weak
                  THEN parse_etags_from(value, m.end, strong, weak \cup {tag})
                  ELSE parse_etags_from(value, m.end, strong \cup {tag}, weak)

\* parse_etags: Optional[str] -> ETags.  The tags of the set are Optional
\* strs (an empty quoted tag "" is kept as None, as the loop leaves it)
parse_etags(value) ==
    IF value = None \/ value[1] = <<>> THEN ETags({}, {}, FALSE)
    ELSE parse_etags_from(value[1], 1, {}, {})

\* ETags.is_weak, is_strong, contains, contains_weak, __bool__ (the set that
\* came from * strongly matches every tag)
ETags_is_weak(s, etag) == Some(etag) \in s.weak
ETags_is_strong(s, etag) == s.star_tag \/ Some(etag) \in s.strong
ETags_contains(s, etag) == s.star_tag \/ Some(etag) \in s.strong
ETags_contains_weak(s, etag) == ETags_is_weak(s, etag) \/ ETags_contains(s, etag)
ETags_bool(s) == s.star_tag \/ s.strong # {} \/ s.weak # {}

\* unquote_etag: str -> [etag, weak] for a non-empty str
unquote_etag(etag) ==
    LET e0 == Strip(etag)
        weak == /\ Len(e0) >= 2
                /\ e0[1] \in {UPPER_W, LOWER_W}
                /\ e0[2] = SLASH
        e1 == IF weak THEN Slice(e0, 3, Len(e0)) ELSE e0
        e2 == IF Len(e1) >= 1 /\ e1[1] = DQUOTE /\ e1[Len(e1)] = DQUOTE
              THEN Slice(e1, 2, Len(e1) - 1) ELSE e1
    IN  [etag |-> e2, weak |-> weak]

\* parse_if_range_header: Optional[str] -> IfRange [etag, date], both Optional
parse_if_range_header(value) ==
    IF value = None \/ value[1] = <<>> THEN [etag |-> None, date |-> None]
    ELSE IF parse_date(value) # None
         THEN [etag |-> None, date |-> parse_date(value)]
         ELSE [etag |-> Some(unquote_etag(value[1]).etag), date |-> None]

\* generate_etag: bytes -> str; the digest of the payload
generate_etag(data) ==
    IF data = Str(<<"x">>) THEN Str(<<"v", "1">>) ELSE Str(<<"v", "2">>)

(***************************************************************************)
(* is_resource_modified.                                                   *)
(***************************************************************************)
\* resolve_etag with the bug that a given etag silently wins over data
resolve_etag_etag_wins(etag, data) ==
    IF etag = None /\ data # None
    THEN [raised |-> FALSE, etag |-> Some(generate_etag(data[1]))]
    ELSE [raised |-> FALSE, etag |-> etag]

\* lines 43-46: the etag the call works with.  [raised, etag]
resolve_etag(etag, data) ==
    IF etag = None /\ data # None
    THEN [raised |-> FALSE, etag |-> Some(generate_etag(data[1]))]
    ELSE IF data # None
         THEN [raised |-> TRUE, etag |-> etag]
         ELSE [raised |-> FALSE, etag |-> etag]

\* lines 49-55: last_modified as an aware datetime of whole seconds.
\* The argument is None, [str |-> s] or [datetime |-> dt]
normalize_last_modified(last_modified) ==
    LET parsed == IF last_modified = None THEN None
                  ELSE IF "str" \in DOMAIN last_modified[1]
                       THEN parse_date(Some(last_modified[1].str))
                       ELSE Some(last_modified[1].datetime)
    IN  IF parsed # None
        THEN Some(dt_as_utc([parsed[1] EXCEPT !.micro = 0]))
        ELSE None

\* if_range_of with the bug that If-Range is read without a Range header
if_range_of_without_range(ignore_if_range, http_range, http_if_range) ==
    IF ~ignore_if_range
    THEN Some(parse_if_range_header(http_if_range))
    ELSE None

\* lines 57-62: the If-Range header, read only for a range request that
\* does not ignore it.  Optional[IfRange]
if_range_of(ignore_if_range, http_range, http_if_range) ==
    IF ~ignore_if_range /\ http_range # None
    THEN Some(parse_if_range_header(http_if_range))
    ELSE None

\* lines 64-67: the instant last_modified is compared with
modified_since_of(if_range, http_if_modified_since) ==
    IF if_range # None /\ if_range[1].date # None
    THEN if_range[1].date
    ELSE parse_date(http_if_modified_since)

\* time_check with the bug that < stands for <=
time_check_strict(modified_since, last_modified) ==
    IF modified_since # None /\ last_modified # None
       /\ ~DtLE(modified_since[1], last_modified[1])
    THEN TRUE
    ELSE FALSE

\* time_check with the bug that a missing last_modified passes the check
time_check_no_last_modified(modified_since, last_modified) ==
    IF modified_since # None
       /\ (last_modified = None \/ DtLE(last_modified[1], modified_since[1]))
    THEN TRUE
    ELSE FALSE

\* lines 48, 69-70: unmodified after the time check
time_check(modified_since, last_modified) ==
    IF modified_since # None /\ last_modified # None
       /\ DtLE(last_modified[1], modified_since[1])
    THEN TRUE
    ELSE FALSE

\* if_none_match_check with the bug that the comparison is the strong one
if_none_match_check_strong(unmodified, http_if_none_match, etag) ==
    LET if_none_match == parse_etags(http_if_none_match)
    IN  IF ETags_bool(if_none_match)
        THEN ETags_contains(if_none_match, etag)
        ELSE unmodified

\* lines 79-84: unmodified after If-None-Match
if_none_match_check(unmodified, http_if_none_match, etag) ==
    LET if_none_match == parse_etags(http_if_none_match)
    IN  IF ETags_bool(if_none_match)
        THEN ETags_contains_weak(if_none_match, etag)
        ELSE unmodified

\* if_match_check with the bug that the negation is missing
if_match_check_not_negated(unmodified, http_if_match, etag) ==
    LET if_match == parse_etags(http_if_match)
    IN  IF ETags_bool(if_match)
        THEN ETags_is_strong(if_match, etag)
        ELSE unmodified

\* if_match_check with the bug that If-Match only adds to what was concluded
if_match_check_accumulates(unmodified, http_if_match, etag) ==
    LET if_match == parse_etags(http_if_match)
    IN  IF ETags_bool(if_match)
        THEN unmodified \/ ~ETags_is_strong(if_match, etag)
        ELSE unmodified

\* lines 89-91: unmodified after If-Match
if_match_check(unmodified, http_if_match, etag) ==
    LET if_match == parse_etags(http_if_match)
    IN  IF ETags_bool(if_match)
        THEN ~ETags_is_strong(if_match, etag)
        ELSE unmodified

\* etag_check with the bug that the If-Range branch has no else: the
\* If-None-Match and If-Match checks run after it
etag_check_falls_through(unmodified, etag, if_range, http_if_none_match, http_if_match) ==
    IF etag # None /\ etag[1] # <<>>
    THEN LET bare == unquote_etag(etag[1]).etag
             u == IF if_range # None /\ if_range[1].etag # None
                  THEN ETags_contains(parse_etags(if_range[1].etag), bare)
                  ELSE unmodified
         IN  if_match_check(
                 if_none_match_check(u, http_if_none_match, bare),
                 http_if_match, bare)
    ELSE unmodified

\* lines 72-91: unmodified after the entity-tag checks
etag_check(unmodified, etag, if_range, http_if_none_match, http_if_match) ==
    IF etag # None /\ etag[1] # <<>>
    THEN LET bare == unquote_etag(etag[1]).etag
         IN  IF if_range # None /\ if_range[1].etag # None
             THEN ETags_contains(parse_etags(if_range[1].etag), bare)
             ELSE if_match_check(
                      if_none_match_check(unmodified, http_if_none_match, bare),
                      http_if_match, bare)
    ELSE unmodified

\* is_resource_modified called with the arguments a: [raised, value]; value is the bool returned
is_resource_modified(a) ==
    LET e == resolve_etag(a.etag, a.data)
        last_modified == normalize_last_modified(a.last_modified)
        if_range == if_range_of(a.ignore_if_range, a.http_range, a.http_if_range)
        modified_since == modified_since_of(if_range, a.http_if_modified_since)
        unmodified0 == time_check(modified_since, last_modified)
        unmodified == etag_check(unmodified0, e.etag, if_range,
                                 a.http_if_none_match, a.http_if_match)
    IN  IF e.raised
        THEN [raised |-> TRUE, value |-> None]
        ELSE [raised |-> FALSE, value |-> Some(~unmodified)]

(***************************************************************************)
(* parse_cookie.                                                           *)
(***************************************************************************)
\* str.encode(): the UTF-8 bytes of a str of code points below 65536
RECURSIVE Encode(_)
Encode(s) ==
    IF s = <<>> THEN <<>>
    ELSE LET c == Head(s)
             b == IF c < 128 THEN <<c>>
                  ELSE IF c < 2048
                       THEN <<192 + (c \div 64), 128 + (c % 64)>>
                       ELSE <<224 + (c \div 4096), 128 + ((c \div 64) % 64),
                              128 + (c % 64)>>
         IN  b \o Encode(Tail(s))

\* the number of continuation bytes a UTF-8 lead byte announces (0: the byte
\* is no lead byte)
Utf8Need(b) ==
    IF b >= 194 /\ b <= 223 THEN 1
    ELSE IF b >= 224 /\ b <= 239 THEN 2
    ELSE IF b >= 240 /\ b <= 244 THEN 3
    ELSE 0

\* whether c may be continuation byte number i after the lead byte b
Utf8Cont(b, i, c) ==
    LET lo == IF i = 1 /\ b = 224 THEN 160
              ELSE IF i = 1 /\ b = 240 THEN 144 ELSE 128
        hi == IF i = 1 /\ b = 237 THEN 159
              ELSE IF i = 1 /\ b = 244 THEN 143 ELSE 191
    IN  c >= lo /\ c <= hi

\* how many of the continuation bytes of the lead byte at p are there
RECURSIVE Utf8Valid(_, _, _)
Utf8Valid(bs, p, i) ==
    IF i <= Utf8Need(bs[p]) /\ p + i <= Len(bs) /\ Utf8Cont(bs[p], i, bs[p + i])
    THEN Utf8Valid(bs, p, i + 1)
    ELSE i - 1

\* bytes.decode("utf-8", "replace") from position p on
RECURSIVE DecodeFrom(_, _)
DecodeFrom(bs, p) ==
    IF p > Len(bs) THEN <<>>
    ELSE LET b == bs[p]
             need == Utf8Need(b)
             got == Utf8Valid(bs, p, 1)
         IN  IF b < 128 THEN <<b>> \o DecodeFrom(bs, p + 1)
             ELSE IF need = 0 THEN <<REPLACEMENT>> \o DecodeFrom(bs, p + 1)
             ELSE IF got < need
                  THEN <<REPLACEMENT>> \o DecodeFrom(bs, p + 1 + got)
             ELSE IF need = 1
                  THEN <<(b - 192) * 64 + (bs[p + 1] - 128)>>
                       \o DecodeFrom(bs, p + 2)
             ELSE IF need = 2
                  THEN <<(b - 224) * 4096 + (bs[p + 1] - 128) * 64
                         + (bs[p + 2] - 128)>> \o DecodeFrom(bs, p + 3)
             ELSE <<(b - 240) * 262144 + (bs[p + 1] - 128) * 4096
                    + (bs[p + 2] - 128) * 64 + (bs[p + 3] - 128)>>
                  \o DecodeFrom(bs, p + 4)

Decode(bs) == DecodeFrom(bs, 1)

\* [0-7] and [0-3] of _cookie_unslash_re
IsOctal(c) == c >= ZERO /\ c <= ZERO + 7
IsOctalLead(c) == c >= ZERO /\ c <= ZERO + 3

\* cookie_unslash_re_match with the bug that the first digit is any octal
\* digit:  \\([0-7]{3}|.)
cookie_unslash_re_match_any_octal(bs, p) ==
    IF p > Len(bs) \/ bs[p] # BACKSLASH THEN None
    ELSE IF /\ p + 3 <= Len(bs)
            /\ IsOctal(bs[p + 1])
            /\ IsOctal(bs[p + 2])
            /\ IsOctal(bs[p + 3])
         THEN Some([v |-> SubSeq(bs, p + 1, p + 3), end |-> p + 4])
         ELSE IF p + 1 <= Len(bs) /\ bs[p + 1] # NEWLINE
              THEN Some([v |-> <<bs[p + 1]>>, end |-> p + 2])
              ELSE None

\* _cookie_unslash_re at position p of the bytes bs:  \\([0-3][0-7]{2}|.)
\* None when it does not match there, else [v, end]: group 1 and the
\* position after the match
cookie_unslash_re_match(bs, p) ==
    IF p > Len(bs) \/ bs[p] # BACKSLASH THEN None
    ELSE IF /\ p + 3 <= Len(bs)
            /\ IsOctalLead(bs[p + 1])
            /\ IsOctal(bs[p + 2])
            /\ IsOctal(bs[p + 3])
         THEN Some([v |-> SubSeq(bs, p + 1, p + 3), end |-> p + 4])
         ELSE IF p + 1 <= Len(bs) /\ bs[p + 1] # NEWLINE
              THEN Some([v |-> <<bs[p + 1]>>, end |-> p + 2])
              ELSE None

\* _cookie_unslash_replace: the bytes an escape stands for
cookie_unslash_replace(v) ==
    IF Len(v) = 1 THEN v
    ELSE <<(v[1] - ZERO) * 64 + (v[2] - ZERO) * 8 + (v[3] - ZERO)>>

\* _cookie_unslash_re.sub(_cookie_unslash_replace, bs) from position p on
RECURSIVE cookie_unslash_sub(_, _)
cookie_unslash_sub(bs, p) ==
    IF p > Len(bs) THEN <<>>
    ELSE LET m == cookie_unslash_re_match(bs, p)
         IN  IF m = None
             THEN <<bs[p]>> \o cookie_unslash_sub(bs, p + 1)
             ELSE cookie_unslash_replace(m[1].v)
                  \o cookie_unslash_sub(bs, m[1].end)

\* the position of the quote that closes (?:[^\\"]|\\.)*" read from
\* position p on; None when there is none
RECURSIVE CookieQuoteEnd(_, _)
CookieQuoteEnd(s, p) ==
    IF p > Len(s) THEN None
    ELSE IF s[p] = DQUOTE THEN Some(p)
    ELSE IF s[p] = BACKSLASH
         THEN IF p + 1 <= Len(s) /\ s[p + 1] # NEWLINE
              THEN CookieQuoteEnd(s, p + 2)
              ELSE None
    ELSE CookieQuoteEnd(s, p + 1)

\* whether \s*; matches at position q
CookieSepAt(s, q) ==
    LET r == SkipSpace(s, q) IN r <= Len(s) /\ s[r] = SEMICOLON

\* the end of [^=;]* read from position p on (the position after the name)
RECURSIVE CookieNameEnd(_, _)
CookieNameEnd(s, p) ==
    IF p <= Len(s) /\ s[p] \notin {EQUALS, SEMICOLON}
    THEN CookieNameEnd(s, p + 1)
    ELSE p

\* _cookie_re.match at position pos of s:
\*    ([^=;]*) (?:\s*=\s* ( "(?:[^\\"]|\\.)*" | .*? ) )? \s*;\s*
\* None when it does not match there, else [ck, cv, end]
cookie_re_match(s, pos) ==
    LET e == CookieNameEnd(s, pos)
        ck == Slice(s, pos, e - 1)
        v0 == SkipSpace(s, e + 1)
        close == IF v0 <= Len(s) /\ s[v0] = DQUOTE
                 THEN CookieQuoteEnd(s, v0 + 1) ELSE None
        \* ends of an unquoted value: no newline before, the delimiter after
        stops == {k \in v0..Len(s) :
                    /\ CookieSepAt(s, k)
                    /\ \A j \in v0..(k - 1) : s[j] # NEWLINE}
    IN  IF e > Len(s) THEN None
        ELSE IF s[e] = SEMICOLON
             THEN Some([ck |-> ck, cv |-> <<>>, end |-> SkipSpace(s, e + 1)])
        ELSE IF close # None /\ CookieSepAt(s, close[1] + 1)
             THEN Some([ck |-> ck, cv |-> Slice(s, v0, close[1]),
                        end |-> SkipSpace(s, SkipSpace(s, close[1] + 1) + 1)])
        ELSE IF stops # {}
             THEN LET k == CHOOSE k \in stops : \A j \in stops : k <= j
                  IN  Some([ck |-> ck, cv |-> Slice(s, v0, k - 1),
                            end |-> SkipSpace(s, SkipSpace(s, k) + 1)])
        ELSE None

\* _cookie_re.findall(s) from position pos on: the <<ck, cv>> of the matches
RECURSIVE cookie_re_findall(_, _)
cookie_re_findall(s, pos) ==
    IF pos > Len(s) THEN <<>>
    ELSE LET m == cookie_re_match(s, pos)
         IN  IF m = None THEN cookie_re_findall(s, pos + 1)
             ELSE <<(<<m[1].ck, m[1].cv>>)>> \o cookie_re_findall(s, m[1].end)

\* lines 175-179: the value of a cookie as it is stored
cookie_value(cv) ==
    IF Len(cv) >= 2 /\ cv[1] = DQUOTE /\ cv[Len(cv)] = DQUOTE
    THEN Decode(cookie_unslash_sub(Encode(Slice(cv, 2, Len(cv) - 1)), 1))
    ELSE cv

\* cookie_loop with the bug that a repeated name overwrites the entry of
\* the name (the items of a plain dict)
RECURSIVE cookie_loop_overwrites(_, _)
cookie_loop_overwrites(found, out) ==
    IF found = <<>> THEN out
    ELSE LET ck == Strip(Head(found)[1])
             cv == Strip(Head(found)[2])
             item == <<ck, cookie_value(cv)>>
         IN  IF ck = <<>> THEN cookie_loop_overwrites(Tail(found), out)
             ELSE IF \E i \in 1..Len(out) : out[i][1] = ck
                  THEN cookie_loop_overwrites(
                           Tail(found),
                           [i \in 1..Len(out) |->
                               IF out[i][1] = ck THEN item ELSE out[i]])
                  ELSE cookie_loop_overwrites(Tail(found), Append(out, item))

\* lines 168-181: the loop over the matches, appending to out
RECURSIVE cookie_loop(_, _)
cookie_loop(found, out) ==
    IF found = <<>> THEN out
    ELSE LET ck == Strip(Head(found)[1])
             cv == Strip(Head(found)[2])
         IN  IF ck = <<>> THEN cookie_loop(Tail(found), out)
             ELSE cookie_loop(Tail(found), Append(out, <<ck, cookie_value(cv)>>))

\* parse_cookie: Optional[str] -> the (name, value) items of the MultiDict,
\* in order
parse_cookie(cookie) ==
    IF cookie = None \/ cookie[1] = <<>> THEN <<>>
    ELSE cookie_loop(cookie_re_findall(cookie[1] \o <<SEMICOLON>>, 1), <<>>)

(***************************************************************************)
(* The calls of is_resource_modified that are checked.                     *)
(***************************************************************************)
TagV1 == Str(<<"\"", "v", "1", "\"">>)
WeakV1 == Str(<<"W", "/", "\"", "v", "1", "\"">>)
TagV2 == Str(<<"\"", "v", "2", "\"">>)
WeakV2 == Str(<<"W", "/", "\"", "v", "2", "\"">>)
BareV1 == Str(<<"v", "1">>)
Star == Str(<<"*">>)
ListV2WeakV1 == TagV2 \o Str(<<",", " ">>) \o WeakV1
NoDate == Str(<<"b", "a", "d">>)
Times == 1..MaxTime

RangeValues == {None, Some(Str(<<"b", "y", "t", "e", "s", "=", "0", "-", "1">>))}
IfRangeValues ==
    {None, Some(TagV1), Some(WeakV2), Some(Star)} \cup {Some(HttpDate(t)) : t \in Times}
DateValues == {None, Some(NoDate)} \cup {Some(HttpDate(t)) : t \in Times}
EtagHeaderValues ==
    {None, Some(Star), Some(TagV1), Some(WeakV1), Some(TagV2),
     Some(ListV2WeakV1)}
EtagValues ==
    {None, Some(<<>>), Some(TagV1), Some(WeakV1), Some(TagV2), Some(BareV1)}
DataValues == {None, Some(Str(<<"x">>))}
LastModifiedValues ==
    {None, Some([str |-> NoDate]), Some([str |-> HttpDate(1)])}
    \cup {Some([datetime |-> Datetime(1, 0, "utc")])}
    \cup {Some([datetime |-> Datetime(t, 999999, "naive")]) : t \in Times}

ModifiedArgs ==
    [http_range : RangeValues,
     http_if_range : IfRangeValues,
     http_if_modified_since : DateValues,
     http_if_none_match : EtagHeaderValues,
     http_if_match : EtagHeaderValues,
     etag : EtagValues,
     data : DataValues,
     last_modified : LastModifiedValues,
     ignore_if_range : BOOLEAN]

InitModified ==
    /\ pc = "call"
    /\ fn = "is_resource_modified"
    /\ args \in ModifiedArgs
    /\ result = None

\* the call returns a bool
ModifiedReturns ==
    /\ pc = "call" /\ fn = "is_resource_modified"
    /\ ~is_resource_modified(args).raised
    /\ pc' = "done"
    /\ result' = is_resource_modified(args).value
    /\ UNCHANGED <<fn, args>>

\* the call raises TypeError
ModifiedRaises ==
    /\ pc = "call" /\ fn = "is_resource_modified"
    /\ is_resource_modified(args).raised
    /\ pc' = "raised"
    /\ UNCHANGED <<fn, args, result>>

(***************************************************************************)
(* The calls of parse_cookie that are checked.                             *)
(***************************************************************************)
CookieAlphabet == {Ord(c) : c \in {"a", "b", "=", ";", " ", "\""}}
ValueAlphabet == {Ord(c) : c \in {"\"", "\\", "0", "1", "3", "4"}}
NameEquals == Str(<<"a", "=">>)

\* the header is absent, or any str of at most MaxCookieLen characters of
\* CookieAlphabet, or a= and any str of at most MaxValueLen characters of
\* ValueAlphabet
InitCookie ==
    /\ pc = "call"
    /\ fn = "parse_cookie"
    /\ \/ args = None
       \/ \E k \in 0..MaxCookieLen : \E s \in [1..k -> CookieAlphabet] :
              args = Some(s)
       \/ \E k \in 0..MaxValueLen : \E v \in [1..k -> ValueAlphabet] :
              args = Some(NameEquals \o v)
    /\ result = None

\* the call returns the items parsed
CookieReturns ==
    /\ pc = "call" /\ fn = "parse_cookie"
    /\ pc' = "done"
    /\ result' = Some(parse_cookie(args))
    /\ UNCHANGED <<fn, args>>

Init == InitModified \/ InitCookie

Next == ModifiedReturns \/ ModifiedRaises \/ CookieReturns

Spec == Init /\ [][Next]_vars

(***************************************************************************)
(* What the claims speak of, in terms of the call in progress.             *)
(***************************************************************************)
ModifiedReturned == fn = "is_resource_modified" /\ pc = "done"

\* the etag the call works with: the one given, else the one of the data
AvailableEtag ==
    IF args.etag # None THEN args.etag
    ELSE IF args.data # None THEN Some(generate_etag(args.data[1])) ELSE None

HasEtag == AvailableEtag # None /\ AvailableEtag[1] # <<>>

\* the bare tag string of the etag, and whether it carried the W/ prefix
BareEtag == unquote_etag(AvailableEtag[1]).etag
EtagIsWeak == unquote_etag(AvailableEtag[1]).weak

\* If-Range is read: the call does not ignore it and is a range request
IfRangeRead == ~args.ignore_if_range /\ args.http_range # None

\* If-Range holds text that is no date (an entity tag), resp. a date
IfRangeIsTag ==
    /\ args.http_if_range # None
    /\ args.http_if_range[1] # <<>>
    /\ parse_date(args.http_if_range) = None
IfRangeIsDate == parse_date(args.http_if_range) # None

\* the strong tags and all the tags of a header, as sets of bare strings
StrongTags(header) == {t[1] : t \in {u \in parse_etags(header).strong : u # None}}
AllTags(header) ==
    StrongTags(header)
    \cup {t[1] : t \in {u \in parse_etags(header).weak : u # None}}
IsStar(header) == parse_etags(header).star_tag

\* last_modified, cut to whole seconds, is not later than If-Modified-Since
NotModifiedSince ==
    /\ normalize_last_modified(args.last_modified) # None
    /\ parse_date(args.http_if_modified_since) # None
    /\ normalize_last_modified(args.last_modified)[1].sec
           <= parse_date(args.http_if_modified_since)[1].sec

\* the call has an etag and If-Match, and none of the other validators
OnlyIfMatch ==
    /\ HasEtag /\ args.data = None
    /\ args.http_if_match # None
    /\ args.http_if_none_match = None
    /\ args.http_if_modified_since = None
    /\ args.http_if_range = None
    /\ args.last_modified = None

C2_IfNoneMatchWeak ==
    /\ ModifiedReturned /\ HasEtag
    /\ args.http_if_none_match # None
    /\ args.http_if_match = None
    /\ ~(IfRangeRead /\ IfRangeIsTag)
    /\ (IsStar(args.http_if_none_match)
            \/ BareEtag \in AllTags(args.http_if_none_match))
    => result = Some(FALSE)

\* etag W/"v1" and If-None-Match "v1", the time check having failed
C2_Witness ==
    /\ ModifiedReturned
    /\ args.etag = Some(WeakV1)
    /\ args.http_if_none_match = Some(TagV1)
    /\ args.http_if_match = None
    /\ ~IfRangeRead
    /\ ~NotModifiedSince
    /\ result = Some(FALSE)

(***************************************************************************)
(* C3                                                                      *)
(***************************************************************************)
\* C3, as stated: when last_modified is not later than If-Modified-Since and
\* neither If-None-Match nor If-Match is given, the result is false whatever
\* Range, If-Range, ignore_if_range and etag are.
C3_AsStated ==
    /\ ModifiedReturned /\ NotModifiedSince
    /\ args.http_if_none_match = None
    /\ args.http_if_match = None
    => result = Some(FALSE)

\* C3, amended: when last_modified is not later than If-Modified-Since and
\* neither If-None-Match nor If-Match is given, the result is false whatever
\* the etag is, provided If-Range is not in force (ignore_if_range is true,
\* Range is absent or If-Range is absent).
C3_TimeCheck ==
    /\ ModifiedReturned /\ NotModifiedSince
    /\ args.http_if_none_match = None
    /\ args.http_if_match = None
    /\ (~IfRangeRead \/ args.http_if_range = None)
    => result = Some(FALSE)

\* last_modified in the same second as If-Modified-Since, with an etag
C3_Witness ==
    /\ ModifiedReturned
    /\ args.last_modified = Some([datetime |-> Datetime(1, 999999, "naive")])
    /\ args.http_if_modified_since = Some(HttpDate(1))
    /\ args.http_if_none_match = None
    /\ args.http_if_match = None
    /\ args.etag = Some(TagV1)
    /\ result = Some(FALSE)

(***************************************************************************)
(* C4                                                                      *)
(***************************************************************************)
\* C4: the call raises, and returns nothing, exactly when etag and data are
\* both given; with data alone it returns what the call with
\* etag = generate_etag(data) and no data returns.
C4_EtagOrData ==
    fn = "is_resource_modified" /\ pc # "call" =>
        IF args.etag # None /\ args.data # None
        THEN pc = "raised" /\ result = None
        ELSE /\ pc = "done"
             /\ result \in {Some(TRUE), Some(FALSE)}
             /\ (args.data # None =>
                    result = is_resource_modified(
                        [args EXCEPT !.etag = Some(generate_etag(args.data[1])),
                                     !.data = None]).value)

\* both etag and data given, with conditional headers: the call raised
C4_Witness ==
    /\ fn = "is_resource_modified" /\ pc = "raised"
    /\ args.etag = Some(TagV1)
    /\ args.data # None
    /\ args.http_if_none_match = Some(TagV1)

(***************************************************************************)
(* C5                                                                      *)
(***************************************************************************)
\* C5: unless ignore_if_range is false and Range is present, the result does
\* not depend on If-Range: it is the result of the call without If-Range,
\* hence the same for any two values of If-Range.
C5_IfRangeIgnored ==
    ModifiedReturned /\ ~IfRangeRead =>
        result = is_resource_modified([args EXCEPT !.http_if_range = None]).value

\* If-Range holds a tag that is not the etag's, yet the call, which has no
\* Range header, found the resource unmodified
C5_Witness ==
    /\ ModifiedReturned
    /\ ~args.ignore_if_range /\ args.http_range = None
    /\ args.http_if_range = Some(WeakV2)
    /\ args.etag = Some(TagV1)
    /\ result = Some(FALSE)

(***************************************************************************)
(* C6                                                                      *)
(***************************************************************************)
\* C6: without etag, data and last_modified the call returns true, whatever
\* the headers and ignore_if_range are.
C6_DefaultModified ==
    /\ fn = "is_resource_modified" /\ pc # "call"
    /\ args.etag = None /\ args.data = None /\ args.last_modified = None
    => pc = "done" /\ result = Some(TRUE)

\* no validator of the resource, but every header of the request
C6_Witness ==
    /\ ModifiedReturned
    /\ args.etag = None /\ args.data = None /\ args.last_modified = None
    /\ args.http_range # None
    /\ args.http_if_range # None
    /\ args.http_if_modified_since = Some(HttpDate(1))
    /\ args.http_if_none_match = Some(Star)
    /\ args.http_if_match # None
    /\ ~args.ignore_if_range

(***************************************************************************)
(* C9                                                                      *)
(***************************************************************************)
\* C9: with an etag, the If-Range tag branch not taken and a non-empty
\* If-Match, the result is that of the call with the same etag and If-Match
\* and nothing else, so any two such calls that agree on etag and If-Match
\* return the same.
C9_IfMatchDecides ==
    /\ ModifiedReturned /\ HasEtag
    /\ ~(IfRangeRead /\ IfRangeIsTag)
    /\ ETags_bool(parse_etags(args.http_if_match))
    => result = is_resource_modified(
                    [http_range |-> None, http_if_range |-> None,
                     http_if_modified_since |-> None,
                     http_if_none_match |-> None,
                     http_if_match |-> args.http_if_match,
                     etag |-> AvailableEtag, data |-> None,
                     last_modified |-> None, ignore_if_range |-> TRUE]).value

\* the time check and If-None-Match both found the resource unmodified, and
\* If-Match, which holds the etag, made the result true
C9_Witness ==
    /\ ModifiedReturned /\ NotModifiedSince
    /\ args.etag = Some(TagV1)
    /\ args.http_if_none_match = Some(TagV1)
    /\ args.http_if_match = Some(TagV1)
    /\ ~IfRangeRead
    /\ result = Some(TRUE)

(***************************************************************************)
(* C10                                                                     *)
(***************************************************************************)
\* C10: when If-Range is read, holds an entity tag, and the call has an etag,
\* the result is false exactly when the If-Range tag is * or its bare string
\* is the bare string of the etag; so it is the same for every If-None-Match,
\* If-Match, If-Modified-Since and last_modified.
C10_IfRangeTagDecides ==
    ModifiedReturned /\ HasEtag /\ IfRangeRead /\ IfRangeIsTag =>
        result = Some(~(\/ args.http_if_range[1] = Star
                        \/ unquote_etag(args.http_if_range[1]).etag = BareEtag))

\* the If-Range tag is the etag's; If-None-Match, If-Match and the time check
\* would each have found the resource modified
C10_Witness ==
    /\ ModifiedReturned /\ IfRangeRead
    /\ args.http_if_range = Some(TagV1)
    /\ args.etag = Some(WeakV1)
    /\ args.http_if_none_match = Some(ListV2WeakV1)
    /\ args.http_if_match = Some(TagV1)
    /\ args.last_modified # None /\ ~NotModifiedSince
    /\ result = Some(FALSE)

(***************************************************************************)
(* C7                                                                      *)
(***************************************************************************)
CookieReturned == fn = "parse_cookie" /\ pc = "done"

\* the header of the call; an absent header reads as the empty one
Header == IF args = None THEN <<>> ELSE args[1]

\* the first position of s that holds c (0 if none)
IndexOf(s, c) ==
    IF \E i \in 1..Len(s) : s[i] = c
    THEN CHOOSE i \in 1..Len(s) : s[i] = c /\ \A j \in 1..(i - 1) : s[j] # c
    ELSE 0

\* the pieces of s between its semicolons
RECURSIVE Segments(_)
Segments(s) ==
    LET i == IndexOf(s, SEMICOLON)
    IN  IF i = 0 THEN <<s>>
        ELSE <<Slice(s, 1, i - 1)>> \o Segments(Slice(s, i + 1, Len(s)))

\* the trimmed name and value of a piece: what is before and after its first =
SegmentName(g) ==
    LET i == IndexOf(g, EQUALS)
    IN  Strip(IF i = 0 THEN g ELSE Slice(g, 1, i - 1))
SegmentValue(g) ==
    LET i == IndexOf(g, EQUALS)
    IN  Strip(IF i = 0 THEN <<>> ELSE Slice(g, i + 1, Len(g)))

\* one (name, value) for each piece with a name, in order
RECURSIVE SegmentItems(_)
SegmentItems(segs) ==
    IF segs = <<>> THEN <<>>
    ELSE (IF SegmentName(Head(segs)) = <<>> THEN <<>>
          ELSE <<(<<SegmentName(Head(segs)), SegmentValue(Head(segs))>>)>>)
         \o SegmentItems(Tail(segs))

\* the trimmed names of the tokens the pattern finds, those that are empty
\* left out
RECURSIVE TokenNames(_)
TokenNames(found) ==
    IF found = <<>> THEN <<>>
    ELSE (IF Strip(Head(found)[1]) = <<>> THEN <<>>
          ELSE <<Strip(Head(found)[1])>>)
         \o TokenNames(Tail(found))

\* C7: parse_cookie returns one entry for each token with a non-empty trimmed
\* name, in header order, repeated names kept; tokens without a name give no
\* entry; an empty or absent header gives no entry.  For a header without
\* double quotes the tokens are the pieces between the semicolons, and the
\* entries are their trimmed names and values.
C7_OneEntryPerToken ==
    CookieReturned =>
        LET items == result[1]
            names == TokenNames(cookie_re_findall(Header \o <<SEMICOLON>>, 1))
        IN  /\ (Header = <<>> => items = <<>>)
            /\ (Header # <<>> =>
                    /\ Len(items) = Len(names)
                    /\ \A i \in 1..Len(items) : items[i][1] = names[i])
            /\ (IndexOf(Header, DQUOTE) = 0 =>
                    items = SegmentItems(Segments(Header)))

\* ' ;a;a': a token without a name, then the same name twice
C7_Witness ==
    /\ CookieReturned
    /\ args = Some(Str(<<" ", ";", "a", ";", "a">>))
    /\ Len(result[1]) = 2
    /\ result[1][1][1] = Str(<<"a">>)
    /\ result[1][2][1] = Str(<<"a">>)

(***************************************************************************)
(* C8                                                                      *)
(***************************************************************************)
\* the call is of the header a=v, v written in the alphabet of quoted values
IsValueCall ==
    /\ fn = "parse_cookie"
    /\ args # None
    /\ Len(args[1]) >= 2
    /\ SubSeq(args[1], 1, 2) = NameEquals
    /\ \A i \in 3..Len(args[1]) : args[1][i] \in ValueAlphabet

RawValue == Slice(args[1], 3, Len(args[1]))

\* the payload with its escapes replaced, read left to right: a backslash and
\* three octal digits, the first of 0-3, give the byte of that value; any
\* other backslash that a byte follows gives that byte
RECURSIVE Unescaped(_)
Unescaped(bs) ==
    IF bs = <<>> THEN <<>>
    ELSE IF /\ bs[1] = BACKSLASH /\ Len(bs) >= 4
            /\ bs[2] \in {Ord("0"), Ord("1"), Ord("2"), Ord("3")}
            /\ \A i \in {3, 4} : bs[i] - Ord("0") \in 0..7
         THEN <<64 * (bs[2] - Ord("0")) + 8 * (bs[3] - Ord("0"))
                + (bs[4] - Ord("0"))>>
              \o Unescaped(Slice(bs, 5, Len(bs)))
    ELSE IF bs[1] = BACKSLASH /\ Len(bs) >= 2
         THEN <<bs[2]>> \o Unescaped(Slice(bs, 3, Len(bs)))
    ELSE <<bs[1]>> \o Unescaped(Slice(bs, 2, Len(bs)))

\* C8: the value of a=v is unescaped exactly when v has at least 2 characters
\* and starts and ends with a double quote: then it is v without the two
\* quotes, its escapes replaced in its bytes; otherwise it is v as written.
C8_UnescapeQuoted ==
    IsValueCall /\ pc = "done" =>
        LET v == RawValue
            wrapped == Len(v) >= 2 /\ v[1] = DQUOTE /\ v[Len(v)] = DQUOTE
        IN  result[1] =
                <<(<<Str(<<"a">>),
                     IF wrapped
                     THEN Decode(Unescaped(Encode(Slice(v, 2, Len(v) - 1))))
                     ELSE v>>)>>

\* a="\041" has the value !
C8_Witness ==
    /\ IsValueCall /\ pc = "done"
    /\ RawValue = Str(<<"\"", "\\", "0", "4", "1", "\"">>)
    /\ result[1] = <<(<<Str(<<"a">>), Str(<<"!">>)>>)>>

====
